---- MODULE Spec2Model ----
(***************************************************************************)
(* State-machine model of the cmi5 / xAPI delivery engine:                 *)
(*   js/cmi5-wrapper.js  (Cmi5: launch, credential exchange, session       *)
(*                        store, lifecycle statements, page teardown)      *)
(*   js/xapi-tracker.js  (XAPITracker: statement queue and processBatch)   *)
(*   js/course.js        (Course.completeCourse)                           *)
(* The page's event loop is modelled as one action per macrotask (event    *)
(* handler, timer tick, network response); continuations of awaits on      *)
(* settled promises are microtasks and run before any other macrotask.     *)
(***************************************************************************)
EXTENDS Integers, Sequences, FiniteSets, TLC

\* ------------------------------------------------------------------ bounds
MaxLoads == 2        \* page loads of one tab in SpecSession
MaxApiCalls == 2     \* direct Cmi5.complete/pass/fail/terminate calls per page
MaxFaults == 1       \* failing responses per page life
MaxStmts == 2        \* statements handed to the tracker per page life
MaxCalls == 2        \* processBatch invocations pending at once

\* ------------------------------------------------------- program constants
MAX_RETRIES == 3
MAX_QUEUE == 100         \* queue cap while not connected
NoPromise == -1          \* batchPromise = null
Settled == 0             \* a promise that is already settled
DefaultMastery == 75     \* masteryScore 0.75, in percent

Null == "null"

\* ------------------------------------------------------------- launch URLs
\* The one-time fetch URLs handed out by the LMS and the session parameter
\* each carries (f4 carries none), and the token each one yields.
FetchUrls == { "f1", "f2", "f3", "f4" }
SessionOf == [ f1 |-> "s1", f2 |-> "s2", f3 |-> "s1", f4 |-> Null ]
TokenOf == [ f1 |-> "t1", f2 |-> "t2", f3 |-> "t3", f4 |-> "t4" ]

\* window.location.search of a launch: registration, fetch URL (Null: none)
\* and whether endpoint, actor and activityId are all present.
LaunchURLs ==
  { [registration |-> "r1", fetch |-> "f1", rest |-> TRUE],
    [registration |-> "r1", fetch |-> "f2", rest |-> TRUE],
    [registration |-> "r2", fetch |-> "f3", rest |-> TRUE],
    [registration |-> "r1", fetch |-> "f4", rest |-> TRUE],
    [registration |-> "r1", fetch |-> "f2", rest |-> FALSE],
    [registration |-> Null, fetch |-> Null, rest |-> FALSE] }

\* responses of the LRS to one HTTP request: 2xx, 404, another 4xx, 401,
\* 403 with body "session not found", 5xx, 5xx whose body contains "401",
\* network error (TypeError)
Responses == { "ok", "e404", "e400", "e401", "e403snf", "e500", "e500t401", "net" }
Failures == Responses \ { "ok" }

\* responses of the LMS to the POST on the fetch URL
ExchangeResponses == { "ok", "notoken", "fail" }

LifecycleVerbs == { "initialized", "completed", "passed", "failed", "terminated" }
ApiVerbs == LifecycleVerbs \ { "initialized" }

\* LMS.LaunchData documents: masteryScore in percent, << >> when not given
LaunchDataDocs == { [ masteryScore |-> << >> ], [ masteryScore |-> << 50 >> ] }

VARIABLES
  url,       \* launch URL of the current page
  store,     \* sessionStorage[SESSION_STORAGE_KEY]: {} or { record }
  page,      \* "loaded" | "closed"
  cmi5,      \* module state of Cmi5 (cmi5-wrapper.js lines 48-73)
  init,      \* position of Cmi5.initialize(): [pc, attempt]
  lifecycle, \* lifecycle statement requests awaiting their response
  posts,     \* history: POSTs issued to each fetch URL
  hist,      \* history of the launch
  budget,    \* remaining loads / api calls / faults
  tracker,   \* module state of XAPITracker (xapi-tracker.js lines 18, 46-48, 1436)
  calls,     \* processBatch invocations that have not returned yet
  course,    \* position of Course.completeCourse()
  wire,      \* history of the statements handed to the tracker
  contextTemplate, \* contextTemplate of the launch data (cmi5-wrapper.js line 62)
  sent,      \* history: the statements built for the LRS, by path
  exam,      \* exam state of Interactions (part_000 214-218) and the scores
             \* of Course (course.js 39-41)
  localStorage, \* the saved exam state and the saved course state
  request    \* one lrsRequest call: its answers and the delays it slept

vars == << url, store, page, cmi5, init, lifecycle, posts, hist, budget,
           tracker, calls, course, wire, contextTemplate, sent, exam, localStorage,
           request >>

trackerVars == << tracker, calls, course, wire >>

\* the state the launch, delivery and completion steps leave alone
extraVars == << contextTemplate, sent, exam, localStorage, request >>

\* no launch data has been read: contextTemplate = null (line 62)
NoTemplate ==
  [ present |-> FALSE, category |-> << >>, parent |-> FALSE, grouping |-> FALSE ]

\* part_000 214-218 and course.js 39-41 on a first visit
\* (reported: the score completeCourse handed over; refused: startExam
\* turned a call down; taken: the scores of the attempts taken)
ExamInit ==
  [ examAttempts |-> 0, examBestScore |-> 0, running |-> FALSE,
    finalExamScore |-> -1, quizScore |-> -1, reported |-> -1,
    refused |-> FALSE, taken |-> {} ]

LocalStorageInit == [ exam |-> << >>, course |-> << >> ]

\* an lrsRequest call (cmi5-wrapper.js 331) that has received no answer
NoRequest ==
  [ method |-> "GET", retryCount |-> 0, answers |-> << >>, slept |-> << >>,
    result |-> "pending" ]

ExtraInit ==
  /\ contextTemplate = NoTemplate /\ sent = {}
  /\ exam = ExamInit /\ localStorage = LocalStorageInit
  /\ request = NoRequest

\* --------------------------------------------------------- Cmi5 state
\* cmi5-wrapper.js lines 48-73
Cmi5Init ==
  [ initialized |-> FALSE, terminated |-> FALSE,
    endpoint |-> Null, fetchUrl |-> Null, actor |-> Null,
    registration |-> Null, activityId |-> Null,
    authToken |-> Null, sessionId |-> Null,
    masteryScore |-> DefaultMastery,
    completionSent |-> FALSE, successSent |-> FALSE ]

\* connected as soon as the launch names an endpoint
isConnectedEndpoint(c) == c.endpoint # Null

isConnected(c) == c.endpoint # Null /\ c.authToken # Null

\* the record saveSessionData() serialises
SessionRecord(c) ==
  [ endpoint |-> c.endpoint, authToken |-> c.authToken, actor |-> c.actor,
    registration |-> c.registration, activityId |-> c.activityId,
    sessionId |-> c.sessionId, masteryScore |-> c.masteryScore,
    initialized |-> c.initialized,
    completionSent |-> c.completionSent, successSent |-> c.successSent ]

\* variant that persists the session only once it is initialized
saveSessionDataLate(c) == IF c.initialized THEN { SessionRecord(c) } ELSE {}

\* saveSessionData lines 84-109
saveSessionData(c) == { SessionRecord(c) }

clearSessionData == {}

\* session parameter of the current fetch URL (loadSessionData lines 129-138)
currentSessionIdFromUrl(u) == IF u.fetch = Null THEN Null ELSE SessionOf[u.fetch]

registrationMatches(d, u) == d.registration # Null /\ d.registration = u.registration

\* the session id of the fetch URL is not compared
sessionMatchesAlways(d, u) == TRUE

sessionMatches(d, u) ==
  currentSessionIdFromUrl(u) = Null \/ d.sessionId = currentSessionIdFromUrl(u)

\* variant of loadSessionData that restores the session without its
\* send-once flags
loadSessionDataNoFlags(c, st, u) ==
  IF st = {} THEN [ ok |-> FALSE, cmi5 |-> c, store |-> st ]
  ELSE LET d == CHOOSE r \in st : TRUE IN
    IF registrationMatches(d, u) /\ sessionMatches(d, u) /\ d.authToken # Null
    THEN [ ok |-> TRUE,
           cmi5 |-> [ c EXCEPT !.endpoint = d.endpoint, !.authToken = d.authToken,
                               !.actor = d.actor, !.registration = d.registration,
                               !.activityId = d.activityId, !.sessionId = d.sessionId,
                               !.masteryScore = d.masteryScore,
                               !.initialized = d.initialized ],
           store |-> st ]
    ELSE [ ok |-> FALSE, cmi5 |-> c, store |-> clearSessionData ]

\* loadSessionData(): [ok, cmi5, store]
loadSessionData(c, st, u) ==
  IF st = {} THEN [ ok |-> FALSE, cmi5 |-> c, store |-> st ]
  ELSE LET d == CHOOSE r \in st : TRUE IN
    IF registrationMatches(d, u) /\ sessionMatches(d, u) /\ d.authToken # Null
    THEN [ ok |-> TRUE,
           cmi5 |-> [ c EXCEPT !.endpoint = d.endpoint, !.authToken = d.authToken,
                               !.actor = d.actor, !.registration = d.registration,
                               !.activityId = d.activityId, !.sessionId = d.sessionId,
                               !.masteryScore = d.masteryScore,
                               !.initialized = d.initialized,
                               !.completionSent = d.completionSent,
                               !.successSent = d.successSent ],
           store |-> st ]
    ELSE [ ok |-> FALSE, cmi5 |-> c, store |-> clearSessionData ]

\* parseLaunchParameters(): the fields read from the URL
parseLaunchParameters(c, u) ==
  [ c EXCEPT !.endpoint = IF u.rest THEN "lrs" ELSE Null,
             !.fetchUrl = u.fetch,
             !.registration = u.registration,
             !.activityId = IF u.rest THEN "au" ELSE Null,
             !.actor = IF u.rest THEN "learner" ELSE c.actor ]

hasAllParams(c) ==
  /\ c.endpoint # Null /\ c.fetchUrl # Null /\ c.actor # Null
  /\ c.registration # Null /\ c.activityId # Null

\* initialize() lines 954-972: the session id of a fresh launch
freshSessionId(c) ==
  IF c.fetchUrl = Null THEN "generated"
  ELSE IF SessionOf[c.fetchUrl] = Null THEN "generated" ELSE SessionOf[c.fetchUrl]

\* ------------------------------------------------------------ transport
\* lrsRequest lines 367-415: what one response leads to
retryable(r) == r \in { "e500", "e500t401", "net" }

\* variant that retries after every failed response
lrsOutcomeRetryAll(r, attempt, method) ==
  IF r = "ok" THEN "return"
  ELSE IF r = "e404" /\ method = "GET" THEN "returnNull"
  ELSE IF attempt < MAX_RETRIES THEN "retry"
  ELSE "throw"

lrsOutcome(r, attempt, method) ==
  IF r = "ok" THEN "return"
  ELSE IF r = "e404" /\ method = "GET" THEN "returnNull"
  ELSE IF retryable(r) /\ attempt < MAX_RETRIES THEN "retry"
  ELSE "throw"

\* ---------------------------------------------------------- history
HistInit ==
  [ acked |-> {},          \* lifecycle verbs acknowledged in this launch
    issued |-> {},         \* fetch URLs whose exchange succeeded
    prior |-> {},          \* the same, as it was when this page was loaded
    exchanged |-> FALSE,   \* this page issued a POST to the fetch URL
    reset |-> FALSE,       \* this page discarded a stored record of another launch
    navigated |-> FALSE ]  \* the tab was sent to a different launch URL

\* the history a new page starts with
HistReload(h, sameUrl) ==
  [ h EXCEPT !.exchanged = FALSE, !.reset = FALSE, !.prior = h.issued,
             !.acked = IF sameUrl THEN @ ELSE {},
             !.navigated = @ \/ ~sameUrl ]

\* xapi-tracker.js lines 18, 46-48, 1436
TrackerInit ==
  [ isInitialized |-> FALSE, statementQueue |-> << >>,
    batchInProgress |-> FALSE, batchPromise |-> NoPromise,
    sessionEnded |-> FALSE ]

\* completeCourse has not been called
\* (held: the statements the tracker held when completeCourse was called,
\* kept until the completed statement is answered or skipped)
\* (cleared: clearState() has removed the saved course state)
CourseInit ==
  [ pc |-> "idle", ready |-> FALSE, on |-> Settled, score |-> 0, held |-> {},
    cleared |-> FALSE ]

WireInit ==
  [ next |-> 1,            \* id of the next statement handed to the tracker
    silent |-> {},         \* statements that left a batch without a request
                           \* while connected, not terminated and not ended
    put |-> {},            \* statements a PUT has been issued for
    acked |-> {},          \* statements whose PUT the LRS acknowledged
    halted |-> FALSE,      \* processBatch has taken its session-ended branch
    afterHalt |-> FALSE,   \* a request was issued after that
    syncPuts |-> 0,        \* synchronous terminated PUTs issued at teardown
    syncAcked |-> FALSE,   \* one of them was answered 2xx
    last |-> [ kind |-> "none", id |-> 0, resp |-> "ok" ] ]
                           \* the error or the dropped submission of the
                           \* tracker's last step, if any

BudgetSession ==
  [ loads |-> MaxLoads - 1, calls |-> 1, faults |-> MaxFaults, stmts |-> MaxStmts ]
BudgetLifecycle ==
  [ loads |-> 0, calls |-> MaxApiCalls, faults |-> MaxFaults, stmts |-> MaxStmts ]

Min(a, b) == IF a < b THEN a ELSE b

InitSession ==
  /\ url \in LaunchURLs
  /\ store = {}
  /\ page = "loaded"
  /\ cmi5 = Cmi5Init
  /\ init = [ pc |-> "unstarted", attempt |-> 0 ]
  /\ lifecycle = {}
  /\ posts = [ f \in FetchUrls |-> 0 ]
  /\ hist = HistInit
  /\ budget = BudgetSession
  /\ tracker = TrackerInit
  /\ calls = {}
  /\ course = CourseInit
  /\ wire = WireInit
  /\ ExtraInit

\* ------------------------------------------------------- event loop
\* a continuation of an await on a settled promise is ready to run: a
\* processBatch invocation waiting at line 1520, or completeCourse
MicrotaskReady ==
  \/ \E k \in calls : k.pc = "wait" /\ k.on = Settled
  \/ course.pc = "flush" /\ course.on = Settled
  \/ course.pc \in { "completed", "success", "terminated" } /\ course.ready

\* macrotasks (events, timers, responses) run when no microtask is left
Quiet == ~MicrotaskReady

\* an HTTP request to the LRS is issued
Request(w) == [ w EXCEPT !.afterHalt = @ \/ w.halted ]

\* ------------------------------------------------- Cmi5.initialize()
\* lines 919-985: everything up to the first await
Initialize ==
  /\ page = "loaded" /\ init.pc = "unstarted" /\ Quiet
  /\ LET ld == loadSessionData(cmi5, store, url)
         c1 == ld.cmi5
         c2 == parseLaunchParameters(c1, url)
         c3 == [ c2 EXCEPT !.sessionId = freshSessionId(c2) ]
         h1 == [ hist EXCEPT !.reset = store # {} /\ ld.store = {} ]
     IN /\ store' = ld.store
        /\ IF ld.ok /\ c1.authToken # Null /\ c1.endpoint # Null
           THEN /\ cmi5' = c1
                /\ init' = [ pc |-> "done", attempt |-> 0 ]
                /\ hist' = h1
                /\ UNCHANGED posts
           ELSE IF ~hasAllParams(c3)
           THEN /\ cmi5' = [ c3 EXCEPT !.initialized = TRUE ]
                /\ init' = [ pc |-> "done", attempt |-> 0 ]
                /\ hist' = h1
                /\ UNCHANGED posts
           ELSE /\ cmi5' = c3
                /\ init' = [ pc |-> "fetchAuth", attempt |-> 0 ]
                /\ posts' = [ posts EXCEPT ![c3.fetchUrl] = Min(@ + 1, 2) ]
                /\ hist' = [ h1 EXCEPT !.exchanged = TRUE ]
  /\ UNCHANGED << url, page, lifecycle, budget >>
  /\ UNCHANGED trackerVars
  /\ UNCHANGED extraVars

\* fetchAuthToken lines 267-316 and the catch of initialize lines 1009-1016
ExchangeResponse(r) ==
  /\ page = "loaded" /\ init.pc = "fetchAuth" /\ Quiet
  /\ IF r = "ok"
     THEN LET c1 == [ cmi5 EXCEPT !.authToken = TokenOf[cmi5.fetchUrl] ]
          IN /\ cmi5' = c1
             /\ store' = saveSessionData(c1)
             /\ init' = [ pc |-> "prefs", attempt |-> 0 ]
             /\ hist' = [ hist EXCEPT !.issued = @ \cup { cmi5.fetchUrl } ]
             /\ UNCHANGED budget
     ELSE /\ budget.faults > 0
          /\ budget' = [ budget EXCEPT !.faults = @ - 1 ]
          /\ cmi5' = [ cmi5 EXCEPT !.initialized = TRUE,
                                   !.authToken = IF r = "notoken" THEN Null ELSE @ ]
          /\ init' = [ pc |-> "done", attempt |-> 0 ]
          /\ UNCHANGED << store, hist >>
  /\ UNCHANGED << url, page, lifecycle, posts >>
  /\ UNCHANGED trackerVars
  /\ UNCHANGED extraVars

\* one response to a GET / PUT issued by initialize() through lrsRequest;
\* next is the step that follows when lrsRequest settles
InitRetry(r, method) ==
  /\ lrsOutcome(r, init.attempt, method) = "retry"
  /\ init' = [ init EXCEPT !.attempt = @ + 1 ]
  /\ UNCHANGED << cmi5, store, hist >>

SpendFault(r) ==
  IF r = "ok" THEN UNCHANGED budget
  ELSE /\ budget.faults > 0
       /\ budget' = [ budget EXCEPT !.faults = @ - 1 ]

\* fetchLearnerPreferences lines 483-515, then fetchLaunchData issues its GET
PrefsResponse(r) ==
  /\ page = "loaded" /\ init.pc = "prefs" /\ Quiet
  /\ SpendFault(r)
  /\ \/ InitRetry(r, "GET")
     \/ /\ lrsOutcome(r, init.attempt, "GET") # "retry"
        /\ init' = [ pc |-> "launchData", attempt |-> 0 ]
        /\ UNCHANGED << cmi5, store, hist >>
  /\ UNCHANGED << url, page, lifecycle, posts >>
  /\ UNCHANGED trackerVars
  /\ UNCHANGED extraVars

\* variant of fetchLaunchData that zeroes the mastery score when the
\* document is absent
fetchLaunchDataZero(c, o, doc) ==
  IF o = "return"
  THEN [ c EXCEPT !.masteryScore =
           IF doc.masteryScore = << >> THEN DefaultMastery
           ELSE doc.masteryScore[1] ]
  ELSE [ c EXCEPT !.masteryScore = 0 ]

\* fetchLaunchData lines 530-558: the fields are taken from the document
\* only when lrsRequest returned one; null (404) and a thrown error leave
\* the defaults
fetchLaunchData(c, o, doc) ==
  IF o = "return"
  THEN [ c EXCEPT !.masteryScore =
           IF doc.masteryScore = << >> THEN DefaultMastery
           ELSE doc.masteryScore[1] ]
  ELSE c

\* fetchLaunchData lines 519-560, then sendInitialized issues its PUT
LaunchDataResponse(r, doc) ==
  /\ page = "loaded" /\ init.pc = "launchData" /\ Quiet
  /\ SpendFault(r)
  /\ \/ InitRetry(r, "GET")
     \/ /\ lrsOutcome(r, init.attempt, "GET") # "retry"
        /\ cmi5' = fetchLaunchData(cmi5, lrsOutcome(r, init.attempt, "GET"), doc)
        /\ init' = [ pc |-> "sendInit", attempt |-> 0 ]
        /\ UNCHANGED << store, hist >>
  /\ UNCHANGED << url, page, lifecycle, posts >>
  /\ UNCHANGED trackerVars
  /\ UNCHANGED extraVars

\* initialize() lines 997-1016: the initialized statement settles
InitializedResponse(r) ==
  /\ page = "loaded" /\ init.pc = "sendInit" /\ Quiet
  /\ SpendFault(r)
  /\ \/ InitRetry(r, "PUT")
     \/ /\ lrsOutcome(r, init.attempt, "PUT") = "return"
        /\ cmi5' = [ cmi5 EXCEPT !.initialized = TRUE ]
        /\ store' = saveSessionData(cmi5')
        /\ init' = [ pc |-> "done", attempt |-> 0 ]
        /\ hist' = [ hist EXCEPT !.acked = @ \cup { "initialized" } ]
     \/ /\ lrsOutcome(r, init.attempt, "PUT") = "throw"
        /\ cmi5' = [ cmi5 EXCEPT !.initialized = TRUE ]
        /\ init' = [ pc |-> "done", attempt |-> 0 ]
        /\ UNCHANGED << store, hist >>
  /\ UNCHANGED << url, page, lifecycle, posts >>
  /\ UNCHANGED trackerVars
  /\ UNCHANGED extraVars

\* ------------------------------------------- lifecycle statements
\* Cmi5.complete/pass/fail/terminate (lines 1047-1077) with sendCompleted,
\* sendPassed, sendFailed, sendTerminated and sendStatement up to the PUT:
\* "null" (returns null), "throw" (LRS not configured) or "send"
lifecycleCall(c, verb) ==
  IF ~c.initialized THEN "null"
  ELSE IF verb = "completed" /\ c.completionSent THEN "null"
  ELSE IF verb \in { "passed", "failed" } /\ c.successSent THEN "null"
  ELSE IF verb = "terminated" /\ c.terminated THEN "null"
  ELSE IF c.terminated /\ verb # "terminated" THEN "null"
  ELSE IF ~isConnected(c) THEN "throw"
  ELSE "send"

\* the request record of a lifecycle statement issued by owner; n tells
\* it from the pending requests of the same verb
NewRequest(verb, owner) ==
  LET used == { q.n : q \in { p \in lifecycle : p.verb = verb /\ p.owner = owner } } IN
  [ verb |-> verb, owner |-> owner, attempt |-> 0,
    n |-> CHOOSE k \in 1..(Cardinality(used) + 1) :
            k \notin used /\ \A m \in 1..(k - 1) : m \in used ]

\* a direct call of Cmi5.complete(), pass(), fail() or terminate()
ApiCall(verb) ==
  /\ page = "loaded" /\ init.pc # "unstarted" /\ Quiet
  /\ budget.calls > 0
  /\ budget' = [ budget EXCEPT !.calls = @ - 1 ]
  /\ IF lifecycleCall(cmi5, verb) = "send"
     THEN /\ lifecycle' = lifecycle \cup { NewRequest(verb, "api") }
          /\ wire' = Request(wire)
     ELSE UNCHANGED << lifecycle, wire >>
  /\ UNCHANGED << url, store, page, cmi5, init, posts, hist >>
  /\ UNCHANGED << tracker, calls, course >>
  /\ UNCHANGED extraVars

\* variant in which an acknowledged completed statement also sets successSent
lifecycleAckedBoth(c, st, verb) ==
  IF verb = "completed"
  THEN [ cmi5 |-> [ c EXCEPT !.completionSent = TRUE, !.successSent = TRUE ],
         store |-> saveSessionData([ c EXCEPT !.completionSent = TRUE,
                                              !.successSent = TRUE ]) ]
  ELSE IF verb \in { "passed", "failed" }
  THEN [ cmi5 |-> [ c EXCEPT !.successSent = TRUE ],
         store |-> saveSessionData([ c EXCEPT !.successSent = TRUE ]) ]
  ELSE [ cmi5 |-> [ c EXCEPT !.terminated = TRUE ], store |-> clearSessionData ]

\* what the acknowledgement of a lifecycle statement does
\* (sendCompleted 770-773, sendPassed 808-811, sendFailed 846-849,
\*  sendTerminated 873-874): [cmi5, store]
lifecycleAcked(c, st, verb) ==
  IF verb = "completed"
  THEN [ cmi5 |-> [ c EXCEPT !.completionSent = TRUE ],
         store |-> saveSessionData([ c EXCEPT !.completionSent = TRUE ]) ]
  ELSE IF verb \in { "passed", "failed" }
  THEN [ cmi5 |-> [ c EXCEPT !.successSent = TRUE ],
         store |-> saveSessionData([ c EXCEPT !.successSent = TRUE ]) ]
  ELSE [ cmi5 |-> [ c EXCEPT !.terminated = TRUE ], store |-> clearSessionData ]

\* completeCourse going on after a failed lifecycle call as after a sent one
\* variant of the end of completeCourse that skips clearState()
completeCourseEndKept(co) == [ co EXCEPT !.pc = "done" ]

\* the end of completeCourse (course.js 472-479), reached after the
\* sequence, from its catch and in standalone mode: clearState()
completeCourseEnd(co) == [ co EXCEPT !.pc = "done", !.cleared = TRUE ]

\* variant of courseAwait that goes on after a failed call
courseAwaitAnyway(co, o) ==
  IF o = "retry" THEN co ELSE [ co EXCEPT !.ready = TRUE, !.held = {} ]

\* completeCourse awaiting a lifecycle call (course.js 444-463): it goes on
\* when the call returns and ends in the catch of line 469 when it throws
courseAwait(co, o) ==
  IF o = "retry" THEN co
  ELSE IF o = "return" THEN [ co EXCEPT !.ready = TRUE, !.held = {} ]
  ELSE completeCourseEnd([ co EXCEPT !.held = {} ])

\* the response to a lifecycle PUT issued by a direct call or by completeCourse
LifecycleResponse(q, r) ==
  /\ page = "loaded" /\ q \in lifecycle /\ Quiet
  /\ SpendFault(r)
  /\ LET o == lrsOutcome(r, q.attempt, "PUT") IN
     /\ IF o = "retry"
        THEN /\ lifecycle' = (lifecycle \ { q }) \cup { [ q EXCEPT !.attempt = @ + 1 ] }
             /\ wire' = Request(wire)
             /\ UNCHANGED << cmi5, store, hist >>
        ELSE IF o = "return"
        THEN /\ lifecycle' = lifecycle \ { q }
             /\ cmi5' = lifecycleAcked(cmi5, store, q.verb).cmi5
             /\ store' = lifecycleAcked(cmi5, store, q.verb).store
             /\ hist' = [ hist EXCEPT !.acked = @ \cup { q.verb } ]
             /\ UNCHANGED wire
        ELSE /\ lifecycle' = lifecycle \ { q }
             /\ UNCHANGED << cmi5, store, hist, wire >>
     /\ course' = IF q.owner # "course" THEN course ELSE courseAwait(course, o)
  /\ UNCHANGED << url, page, init, posts, tracker, calls >>
  /\ UNCHANGED extraVars

\* --------------------------------------------------- page teardown
\* an unload listener that does not test isInitialized()
unloadListenerUninitialized(s, ok) ==
  IF ~s.cmi5.terminated /\ isConnected(s.cmi5)
  THEN [ cmi5 |-> IF ok THEN [ s.cmi5 EXCEPT !.terminated = TRUE ] ELSE s.cmi5,
         store |-> IF ok THEN clearSessionData ELSE s.store,
         syncPuts |-> s.syncPuts + 1 ]
  ELSE s

\* one of the two unload listeners (lines 1268-1279) with terminateSync
\* (1082-1087) and sendTerminatedSync (885-908); ok is the outcome of the
\* blocking PUT. s = [cmi5, store, syncPuts]
unloadListener(s, ok) ==
  IF s.cmi5.initialized /\ ~s.cmi5.terminated /\ isConnected(s.cmi5)
  THEN [ cmi5 |-> IF ok THEN [ s.cmi5 EXCEPT !.terminated = TRUE ] ELSE s.cmi5,
         store |-> IF ok THEN clearSessionData ELSE s.store,
         syncPuts |-> s.syncPuts + 1 ]
  ELSE s

\* beforeunload followed by pagehide
teardown(c, st, ok1, ok2) ==
  unloadListener(unloadListener([ cmi5 |-> c, store |-> st, syncPuts |-> 0 ], ok1), ok2)

\* the tab reloads, or is sent to another launch URL: the unload listeners
\* run, the page's script state is gone and the new document is loaded
Reload(u, ok1, ok2) ==
  /\ page = "loaded" /\ Quiet
  /\ budget.loads > 0
  /\ u = url \/ ~hist.navigated
  /\ LET t == teardown(cmi5, store, ok1, ok2) IN
     /\ store' = t.store
     /\ hist' = HistReload([ hist EXCEPT !.acked =
                   IF t.cmi5.terminated THEN @ \cup { "terminated" } ELSE @ ], u = url)
  /\ url' = u
  /\ cmi5' = Cmi5Init
  /\ init' = [ pc |-> "unstarted", attempt |-> 0 ]
  /\ lifecycle' = {}
  /\ budget' = [ BudgetSession EXCEPT !.loads = budget.loads - 1 ]
  /\ UNCHANGED << page, posts >>
  /\ UNCHANGED trackerVars
  /\ UNCHANGED extraVars

NextSession ==
  \/ Initialize
  \/ \E r \in ExchangeResponses : ExchangeResponse(r)
  \/ \E r \in Responses : PrefsResponse(r)
  \/ \E r \in Responses, doc \in LaunchDataDocs : LaunchDataResponse(r, doc)
  \/ \E r \in Responses : InitializedResponse(r)
  \/ \E verb \in ApiVerbs : ApiCall(verb)
  \/ \E q \in lifecycle, r \in Responses : LifecycleResponse(q, r)
  \/ \E u \in LaunchURLs, ok1, ok2 \in BOOLEAN : Reload(u, ok1, ok2)

SpecSession == InitSession /\ [][NextSession]_vars

\* one page life with direct calls of the lifecycle API
InitLifecycle ==
  /\ url \in LaunchURLs
  /\ store = {}
  /\ page = "loaded"
  /\ cmi5 = Cmi5Init
  /\ init = [ pc |-> "unstarted", attempt |-> 0 ]
  /\ lifecycle = {}
  /\ posts = [ f \in FetchUrls |-> 0 ]
  /\ hist = HistInit
  /\ budget = BudgetLifecycle
  /\ tracker = TrackerInit
  /\ calls = {}
  /\ course = CourseInit
  /\ wire = WireInit
  /\ ExtraInit

NextLifecycle ==
  \/ Initialize
  \/ \E r \in ExchangeResponses : ExchangeResponse(r)
  \/ \E r \in Responses : PrefsResponse(r)
  \/ \E r \in Responses, doc \in LaunchDataDocs : LaunchDataResponse(r, doc)
  \/ \E r \in Responses : InitializedResponse(r)
  \/ \E verb \in ApiVerbs : ApiCall(verb)
  \/ \E q \in lifecycle, r \in Responses : LifecycleResponse(q, r)

SpecLifecycle == InitLifecycle /\ [][NextLifecycle]_vars

\* ------------------------------------------------ a fresh launch alone
\* initialize() on an empty Session Store, with enough faults for one
\* request to exhaust its retries
BudgetLaunch ==
  [ loads |-> 0, calls |-> 0, faults |-> MAX_RETRIES + MaxFaults, stmts |-> MaxStmts ]

InitLaunch ==
  /\ url \in LaunchURLs
  /\ store = {}
  /\ page = "loaded"
  /\ cmi5 = Cmi5Init
  /\ init = [ pc |-> "unstarted", attempt |-> 0 ]
  /\ lifecycle = {}
  /\ posts = [ f \in FetchUrls |-> 0 ]
  /\ hist = HistInit
  /\ budget = BudgetLaunch
  /\ tracker = TrackerInit
  /\ calls = {}
  /\ course = CourseInit
  /\ wire = WireInit
  /\ ExtraInit

NextLaunch ==
  \/ Initialize
  \/ \E r \in ExchangeResponses : ExchangeResponse(r)
  \/ \E r \in Responses : PrefsResponse(r)
  \/ \E r \in Responses, doc \in LaunchDataDocs : LaunchDataResponse(r, doc)
  \/ \E r \in Responses : InitializedResponse(r)

SpecLaunch == InitLaunch /\ [][NextLaunch]_vars

\* -------------------------------------------------- XAPITracker state
\* the tracker side of the page: S = [t, k, c, w] stands for the values of
\* tracker, calls, course and wire while a handler runs
Cur == [ t |-> tracker, k |-> calls, c |-> course, w |-> wire ]

Apply(S) ==
  /\ tracker' = S.t
  /\ calls' = S.k
  /\ course' = S.c
  /\ wire' = S.w

\* a processBatch invocation that has not returned: waiting at line 1520
\* for the promise on, or at line 1540 for the PUT of batch[i]
Call(id, pc, on, batch, i) ==
  [ id |-> id, pc |-> pc, on |-> on, batch |-> batch, i |-> i, attempt |-> 0 ]

NewId(S) ==
  CHOOSE n \in 1..MaxCalls :
    /\ n \notin { x.id : x \in S.k }
    /\ \A m \in 1..(n - 1) : m \in { x.id : x \in S.k }

Event(kind, id, resp) == [ kind |-> kind, id |-> id, resp |-> resp ]
NoEvent == Event("none", 0, "ok")

\* statements the tracker still holds for delivery
Pending(q, k) ==
  { q[j] : j \in 1..Len(q) }
    \cup UNION { { x.batch[j] : j \in x.i..Len(x.batch) } : x \in { y \in k : y.pc = "send" } }

\* line 1549: the error message names an ended session
sessionError(r) == r \in { "e401", "e403snf", "e500t401" }

\* a not-connected branch that empties the queue
capQueueEmpty(q) == << >>

\* lines 1580-1582
capQueue(q) ==
  IF Len(q) > MAX_QUEUE THEN SubSeq(q, Len(q) - MAX_QUEUE + 1, Len(q)) ELSE q

\* sendStatement without the sessionEnded check of line 1440
SubmitAlways(S, c5) ==
  LET n == S.w.next IN
  IF c5.terminated
  THEN [ S EXCEPT !.w.next = n + 1, !.w.last = Event("dropped", 0, "ok"),
                  !.t.sessionEnded = TRUE, !.t.statementQueue = << >> ]
  ELSE [ S EXCEPT !.w.next = n + 1, !.w.last = NoEvent,
                  !.t.statementQueue = Append(@, n) ]

\* XAPITracker's sendStatement (1438-1469); c5 is the Cmi5 state
Submit(S, c5) ==
  LET n == S.w.next IN
  IF S.t.sessionEnded
  THEN [ S EXCEPT !.w.next = n + 1, !.w.last = Event("dropped", 0, "ok") ]
  ELSE IF c5.terminated
  THEN [ S EXCEPT !.w.next = n + 1, !.w.last = Event("dropped", 0, "ok"),
                  !.t.sessionEnded = TRUE, !.t.statementQueue = << >> ]
  ELSE [ S EXCEPT !.w.next = n + 1, !.w.last = NoEvent,
                  !.t.statementQueue = Append(@, n) ]

\* the promise of invocation id settles
Settle(S, id) ==
  [ S EXCEPT
      !.k = { IF x.on = id THEN [ x EXCEPT !.on = Settled ] ELSE x :
              x \in { y \in S.k : y.id # id } },
      !.t.batchPromise = IF @ = id THEN Settled ELSE @,
      !.c.on = IF @ = id THEN Settled ELSE @ ]

\* variant of the return of processBatch without the finally block
LeaveLocked(S, id) == Settle(S, id)

\* processBatch leaves its try block (finally, 1586-1588) and returns
Leave(S, id) == Settle([ S EXCEPT !.t.batchInProgress = FALSE ], id)

\* variant of the guard of Cmi5.sendStatement without the initialized test
sendStatementRejectsConnected(c5) ==
  ~isConnected(c5) \/ c5.terminated

\* Cmi5.sendStatement lines 1100-1108: the calls that return null before
\* a statement is built
sendStatementRejects(c5) ==
  ~c5.initialized \/ ~isConnected(c5) \/ c5.terminated

\* the delivery loop (1534-1565) of invocation id at statement i of batch:
\* Cmi5.sendStatement (1099-1145) resolves to null without a request when
\* the wrapper is not initialized, not connected or terminated, and the
\* loop goes on to the next statement; otherwise the PUT is issued
Loop(S, c5, id, batch, i) ==
  IF i > Len(batch) THEN Leave(S, id)
  ELSE IF sendStatementRejects(c5)
  THEN Leave([ S EXCEPT !.w.silent = @ \cup
                 IF isConnected(c5) /\ ~c5.terminated /\ ~S.t.sessionEnded
                 THEN { batch[j] : j \in i..Len(batch) } ELSE {} ], id)
  ELSE [ S EXCEPT
           !.k = { y \in @ : y.id # id } \cup { Call(id, "send", Settled, batch, i) },
           !.w = [ Request(@) EXCEPT !.put = @ \cup { batch[i] } ] ]

\* variant of processBatch that leaves an unconnected queue as it is
EnterUncapped(S, c5, id) ==
  LET S1 == [ S EXCEPT !.t.batchInProgress = TRUE ] IN
  IF isConnected(c5) /\ ~c5.terminated
  THEN Loop([ S1 EXCEPT !.t.statementQueue = << >> ], c5, id, S.t.statementQueue, 1)
  ELSE IF c5.terminated
  THEN Leave([ S1 EXCEPT !.t.sessionEnded = TRUE, !.t.statementQueue = << >> ], id)
  ELSE Leave([ S1 EXCEPT !.t.statementQueue = @ ], id)

\* processBatch from line 1526
Enter(S, c5, id) ==
  LET S1 == [ S EXCEPT !.t.batchInProgress = TRUE ] IN
  IF isConnected(c5) /\ ~c5.terminated
  THEN Loop([ S1 EXCEPT !.t.statementQueue = << >> ], c5, id, S.t.statementQueue, 1)
  ELSE IF c5.terminated
  THEN Leave([ S1 EXCEPT !.t.sessionEnded = TRUE, !.t.statementQueue = << >> ], id)
  ELSE Leave([ S1 EXCEPT !.t.statementQueue = capQueue(@) ], id)

\* a call of processBatch (1502-1526) up to its first await: [S, p], p the
\* promise it returns
processBatch(S, c5) ==
  IF S.t.sessionEnded
  THEN [ S |-> [ S EXCEPT !.t.statementQueue = << >> ], p |-> Settled ]
  ELSE IF S.t.statementQueue = << >>
  THEN [ S |-> S, p |-> Settled ]
  ELSE IF S.t.batchInProgress /\ S.t.batchPromise # NoPromise
  THEN [ S |-> [ S EXCEPT !.k = @ \cup
                   { Call(NewId(S), "wait", S.t.batchPromise, << >>, 0) } ],
         p |-> NewId(S) ]
  ELSE LET R == Enter(S, c5, NewId(S)) IN
       [ S |-> R,
         p |-> IF \E x \in R.k : x.id = NewId(S) THEN NewId(S) ELSE Settled ]

\* batchPromise = processBatch()  (198, 1218, 1704, 1856, 1895)
flush(S, c5) ==
  LET R == processBatch(S, c5) IN
  [ S |-> [ R.S EXCEPT !.t.batchPromise = R.p ], p |-> R.p ]

\* processBatch after the await of line 1520
Resume(S, c5, id) ==
  IF S.t.statementQueue = << >> \/ S.t.sessionEnded
  THEN Settle(S, id)
  ELSE Enter(S, c5, id)

\* requeueing with push instead of unshift
requeueBack(t, remaining) ==
  IF ~t.sessionEnded THEN t.statementQueue \o remaining ELSE t.statementQueue

\* requeueing of line 1558-1562
requeue(t, remaining) ==
  IF ~t.sessionEnded THEN remaining \o t.statementQueue ELSE t.statementQueue

\* the session-ended branch without line 1552
haltKeepQueue(t) == [ t EXCEPT !.sessionEnded = TRUE ]

\* the session-ended branch of lines 1549-1553
halt(t) == [ t EXCEPT !.sessionEnded = TRUE, !.statementQueue = << >> ]

\* the answer r to the PUT of invocation x (lrsRequest, then 1541-1564)
Response(S, c5, x, r) ==
  LET o == lrsOutcome(r, x.attempt, "PUT")
      S1 == [ S EXCEPT !.w.last = IF o = "throw" THEN Event(o, x.id, r) ELSE NoEvent ] IN
  IF o = "retry"
  THEN [ S1 EXCEPT !.k = (@ \ { x }) \cup { [ x EXCEPT !.attempt = @ + 1 ] },
                   !.w = Request(@) ]
  ELSE IF o = "return"
  THEN Loop([ S1 EXCEPT !.w.acked = @ \cup { x.batch[x.i] } ],
            c5, x.id, x.batch, x.i + 1)
  ELSE IF sessionError(r)
  THEN Leave([ S1 EXCEPT !.t = halt(@), !.w.halted = TRUE ], x.id)
  ELSE Leave([ S1 EXCEPT !.t.statementQueue =
                 requeue(S.t, SubSeq(x.batch, x.i, Len(x.batch))) ], x.id)

\* ------------------------------------------------- XAPITracker events
cmi5Vars == << url, store, cmi5, init, lifecycle, posts, hist, budget >>

\* XAPITracker.init (169-212), a second after DOMContentLoaded (1929);
\* trackSessionStart submits the first statement
XAPITrackerInit ==
  /\ page = "loaded" /\ Quiet
  /\ init.pc # "unstarted" /\ ~tracker.isInitialized
  /\ Apply(Submit([ Cur EXCEPT !.t.isInitialized = TRUE ], cmi5))
  /\ UNCHANGED << cmi5Vars, page >>
  /\ UNCHANGED extraVars

\* a tracked interaction: sendStatement, and for a quiz answer (1215-1222)
\* or a game result (1704) an immediate flush
Track(immediate) ==
  /\ page = "loaded" /\ Quiet
  /\ tracker.isInitialized
  /\ wire.next <= budget.stmts /\ Cardinality(calls) < MaxCalls
  /\ Apply(IF immediate THEN flush(Submit(Cur, cmi5), cmi5).S ELSE Submit(Cur, cmi5))
  /\ UNCHANGED << cmi5Vars, page >>
  /\ UNCHANGED extraVars

\* the batch timer (198)
TimerTick ==
  /\ page = "loaded" /\ Quiet
  /\ tracker.isInitialized
  /\ Cardinality(calls) < MaxCalls
  /\ Apply(flush(Cur, cmi5).S)
  /\ UNCHANGED << cmi5Vars, page >>
  /\ UNCHANGED extraVars

\* the LRS answers the PUT of a delivery loop
BatchResponse(x, r) ==
  /\ page = "loaded" /\ Quiet
  /\ x \in calls /\ x.pc = "send"
  /\ SpendFault(r)
  /\ Apply(Response(Cur, cmi5, x, r))
  /\ UNCHANGED << url, store, cmi5, init, lifecycle, posts, hist, page >>
  /\ UNCHANGED extraVars

\* the continuation of processBatch's await of a settled promise
BatchResume(x) ==
  /\ page = "loaded"
  /\ x \in calls /\ x.pc = "wait" /\ x.on = Settled
  /\ Apply(Resume(Cur, cmi5, x.id))
  /\ UNCHANGED << cmi5Vars, page >>
  /\ UNCHANGED extraVars

\* ------------------------------------------------------ completeCourse
Scores == { 60 }

\* completeCourse (course.js 415-441) up to the await of XAPITracker.flush()
CompleteCourse(score) ==
  /\ page = "loaded" /\ Quiet
  /\ init.pc # "unstarted" /\ course.pc = "idle"
  /\ Cardinality(calls) < MaxCalls
  /\ IF isConnected(cmi5)
     THEN LET R == flush(Cur, cmi5) IN
          Apply([ R.S EXCEPT !.c = [ pc |-> "flush", ready |-> FALSE,
                                     on |-> R.p, score |-> score,
                                     held |-> Pending(tracker.statementQueue, calls),
                                     cleared |-> FALSE ] ])
     ELSE Apply([ Cur EXCEPT !.c = completeCourseEnd([ @ EXCEPT !.score = score ]) ])
  /\ UNCHANGED << cmi5Vars, page >>
  /\ UNCHANGED extraVars

\* the lifecycle call completeCourse makes next (444-459)
courseVerb(c5, co) ==
  IF co.pc = "flush" THEN "completed"
  ELSE IF co.pc = "completed"
  THEN IF co.score >= c5.masteryScore THEN "passed" ELSE "failed"
  ELSE "terminated"

coursePc(co) ==
  IF co.pc = "flush" THEN "completed"
  ELSE IF co.pc = "completed" THEN "success"
  ELSE "terminated"

\* completeCourse goes on after an await: Cmi5.complete(), pass()/fail(),
\* terminate() (444-459); an error ends it in the catch of line 469
CourseStep ==
  /\ page = "loaded"
  /\ \/ course.pc = "flush" /\ course.on = Settled
     \/ course.pc \in { "completed", "success" } /\ course.ready
  /\ LET verb == courseVerb(cmi5, course)
         o == lifecycleCall(cmi5, verb) IN
     /\ lifecycle' = IF o = "send" THEN lifecycle \cup { NewRequest(verb, "course") }
                     ELSE lifecycle
     /\ wire' = IF o = "send" THEN Request(wire) ELSE wire
     /\ course' = IF o = "throw" THEN completeCourseEnd([ course EXCEPT !.held = {} ])
                  ELSE [ course EXCEPT !.pc = coursePc(course), !.ready = (o = "null"),
                                       !.held = IF o = "send" THEN @ ELSE {} ]
  /\ UNCHANGED << url, store, cmi5, init, posts, hist, budget, page, tracker, calls >>
  /\ UNCHANGED extraVars

\* XAPITracker.stop() after the terminated statement (465-467, tracker 1898-1902)
CourseStop ==
  /\ page = "loaded"
  /\ course.pc = "terminated" /\ course.ready
  /\ tracker' = [ tracker EXCEPT !.sessionEnded = TRUE, !.statementQueue = << >> ]
  /\ course' = completeCourseEnd(course)
  /\ UNCHANGED << cmi5Vars, page, calls, wire >>
  /\ UNCHANGED extraVars

\* ------------------------------------------------------- leaving the page
\* continuations of processBatch that are ready run when a listener returns
RECURSIVE Drain(_, _, _)
Drain(S, c5, n) ==
  IF n = 0 \/ ~\E x \in S.k : x.pc = "wait" /\ x.on = Settled THEN S
  ELSE Drain(Resume(S, c5, (CHOOSE x \in S.k : x.pc = "wait" /\ x.on = Settled).id),
             c5, n - 1)

\* the beforeunload listener of xapi-tracker.js (1840-1857): the exit of the
\* current section is submitted, then the queue is flushed
trackerUnload(S, c5, exit) ==
  Drain(flush(IF exit THEN Submit(S, c5) ELSE S, c5).S, c5, MaxCalls)

\* the tab is closed: the beforeunload listeners of cmi5-wrapper.js
\* (1267-1271) and xapi-tracker.js run, first names the one that runs
\* first, then the pagehide listener (1274-1279); the document is gone,
\* its pending requests and continuations with it
Unload(first, exit, ok1, ok2) ==
  /\ page = "loaded" /\ Quiet
  /\ exit => tracker.isInitialized /\ wire.next <= budget.stmts
  /\ Cardinality(calls) < MaxCalls
  /\ LET s0 == [ cmi5 |-> cmi5, store |-> store, syncPuts |-> 0 ]
         s1 == unloadListener(s0, ok1)
         s2 == unloadListener(s1, ok2)
         S1 == trackerUnload(Cur, IF first = "cmi5" THEN s1.cmi5 ELSE cmi5, exit) IN
     /\ cmi5' = s2.cmi5
     /\ store' = s2.store
     /\ hist' = [ hist EXCEPT !.acked =
                    IF s2.cmi5.terminated /\ ~cmi5.terminated
                    THEN @ \cup { "terminated" } ELSE @ ]
     /\ tracker' = S1.t
     /\ wire' = [ (IF s2.syncPuts > 0 THEN Request(S1.w) ELSE S1.w) EXCEPT
                    !.syncPuts = s2.syncPuts,
                    !.syncAcked = \/ s1.syncPuts = 1 /\ ok1
                                  \/ s2.syncPuts > s1.syncPuts /\ ok2 ]
  /\ page' = "closed"
  /\ calls' = {}
  /\ lifecycle' = {}
  /\ course' = [ course EXCEPT !.pc = "done", !.on = Settled, !.ready = FALSE,
                               !.held = {} ]
  /\ UNCHANGED << url, init, posts, budget >>
  /\ UNCHANGED extraVars

\* --------------------------------------------------------- one page life
PageURLs == { u \in LaunchURLs : u.fetch \in { "f1", Null } \/ ~u.rest }

BudgetPage == [ loads |-> 0, calls |-> 0, faults |-> MaxFaults, stmts |-> MaxStmts ]

InitPage ==
  /\ url \in PageURLs
  /\ store = {}
  /\ page = "loaded"
  /\ cmi5 = Cmi5Init
  /\ init = [ pc |-> "unstarted", attempt |-> 0 ]
  /\ lifecycle = {}
  /\ posts = [ f \in FetchUrls |-> 0 ]
  /\ hist = HistInit
  /\ budget = BudgetPage
  /\ tracker = TrackerInit
  /\ calls = {}
  /\ course = CourseInit
  /\ wire = WireInit
  /\ ExtraInit

NextPage ==
  \/ Initialize
  \/ \E r \in ExchangeResponses : ExchangeResponse(r)
  \/ \E r \in Responses : PrefsResponse(r)
  \/ \E r \in Responses, doc \in LaunchDataDocs : LaunchDataResponse(r, doc)
  \/ \E r \in Responses : InitializedResponse(r)
  \/ \E q \in lifecycle, r \in Responses : LifecycleResponse(q, r)
  \/ XAPITrackerInit
  \/ \E immediate \in BOOLEAN : Track(immediate)
  \/ TimerTick
  \/ \E x \in calls, r \in Responses : BatchResponse(x, r)
  \/ \E x \in calls : BatchResume(x)
  \/ \E score \in Scores : CompleteCourse(score)
  \/ CourseStep
  \/ CourseStop
  \/ \E first \in { "cmi5", "tracker" }, exit, ok1, ok2 \in BOOLEAN :
       Unload(first, exit, ok1, ok2)

SpecPage == InitPage /\ [][NextPage]_vars

\* ------------------------------------------- delivery under many faults
\* a complete launch followed by tracked statements, with enough failing
\* answers for one lrsRequest to use up its retries
BudgetDelivery ==
  [ loads |-> 0, calls |-> 0, faults |-> MAX_RETRIES + MaxFaults, stmts |-> MaxStmts ]

DeliveryURLs == { u \in LaunchURLs : u.rest /\ u.fetch = "f1" /\ u.registration # Null }

InitDelivery ==
  /\ url \in DeliveryURLs
  /\ store = {}
  /\ page = "loaded"
  /\ cmi5 = Cmi5Init
  /\ init = [ pc |-> "unstarted", attempt |-> 0 ]
  /\ lifecycle = {}
  /\ posts = [ f \in FetchUrls |-> 0 ]
  /\ hist = HistInit
  /\ budget = BudgetDelivery
  /\ tracker = TrackerInit
  /\ calls = {}
  /\ course = CourseInit
  /\ wire = WireInit
  /\ ExtraInit

NextDelivery ==
  \/ Initialize
  \/ \E r \in ExchangeResponses : ExchangeResponse(r)
  \/ \E r \in Responses : PrefsResponse(r)
  \/ \E r \in Responses, doc \in LaunchDataDocs : LaunchDataResponse(r, doc)
  \/ \E r \in Responses : InitializedResponse(r)
  \/ XAPITrackerInit
  \/ \E immediate \in BOOLEAN : Track(immediate)
  \/ TimerTick
  \/ \E x \in calls, r \in Responses : BatchResponse(x, r)
  \/ \E x \in calls : BatchResume(x)

SpecDelivery == InitDelivery /\ [][NextDelivery]_vars

\* ------------------------------------------- a page without connection
\* a launch that lacks a parameter: Cmi5 stays unconnected and the tracker
\* keeps what it is given; enough statements to pass the queue cap
BudgetQueue ==
  [ loads |-> 0, calls |-> 0, faults |-> 0, stmts |-> MAX_QUEUE + MaxStmts ]

QueueURLs == { u \in LaunchURLs : ~(u.rest /\ u.fetch # Null /\ u.registration # Null) }

InitQueue ==
  /\ url \in QueueURLs
  /\ store = {}
  /\ page = "loaded"
  /\ cmi5 = Cmi5Init
  /\ init = [ pc |-> "unstarted", attempt |-> 0 ]
  /\ lifecycle = {}
  /\ posts = [ f \in FetchUrls |-> 0 ]
  /\ hist = HistInit
  /\ budget = BudgetQueue
  /\ tracker = TrackerInit
  /\ calls = {}
  /\ course = CourseInit
  /\ wire = WireInit
  /\ ExtraInit

NextQueue ==
  \/ Initialize
  \/ XAPITrackerInit
  \/ \E immediate \in BOOLEAN : Track(immediate)
  \/ TimerTick

SpecQueue == InitQueue /\ [][NextQueue]_vars

\* ------------------------------------------------ statement contexts
\* the context activities of a launch-data contextTemplate: category is
\* << >> when the template has no category list and << list >> when it
\* has one; a list holds the cmi5 category at most once
CategoryLists ==
  { << >>, << "other" >>, << "cmi5" >>, << "other", "cmi5" >>,
    << "cmi5", "moveon" >> }

Templates ==
  { NoTemplate } \cup
  [ present : { TRUE }, category : { << >> } \cup { << l >> : l \in CategoryLists },
    parent : BOOLEAN, grouping : BOOLEAN ]

Has(list, c) == \E i \in 1..Len(list) : list[i] = c

\* variant of buildStatement that pushes the cmi5 category unconditionally
buildStatementPush(t, verb) ==
  LET c0 == IF t.present /\ t.category # << >> THEN t.category[1] ELSE << >>
      c1 == Append(c0, "cmi5")
      c2 == IF verb \in { "passed", "failed" } /\ ~Has(c1, "moveon")
            THEN Append(c1, "moveon") ELSE c1
  IN [ via |-> "lifecycle", verb |-> verb, category |-> c2,
       parent |-> t.present /\ t.parent, grouping |-> t.present /\ t.grouping ]

\* buildStatement lines 578-650: the context is a copy of the template,
\* the cmi5 category is pushed unless the list has it, the moveon category
\* likewise for passed and failed
buildStatement(t, verb) ==
  LET c0 == IF t.present /\ t.category # << >> THEN t.category[1] ELSE << >>
      c1 == IF Has(c0, "cmi5") THEN c0 ELSE Append(c0, "cmi5")
      c2 == IF verb \in { "passed", "failed" } /\ ~Has(c1, "moveon")
            THEN Append(c1, "moveon") ELSE c1
  IN [ via |-> "lifecycle", verb |-> verb, category |-> c2,
       parent |-> t.present /\ t.parent, grouping |-> t.present /\ t.grouping ]

\* Cmi5.sendStatement lines 1110-1142 and Cmi5.sendStatementSync lines
\* 1154-1178: a fresh context with the registration and the session id,
\* and of the template only parent and grouping
allowedStatement(t, via) ==
  [ via |-> via, verb |-> "experienced", category |-> << >>,
    parent |-> t.present /\ t.parent, grouping |-> t.present /\ t.grouping ]

\* sendInitialized, sendCompleted, sendPassed, sendFailed, sendTerminated
\* build their statement (741-880)
BuildLifecycle(verb) ==
  /\ sent' = sent \cup { buildStatement(contextTemplate, verb) }
  /\ UNCHANGED << url, store, page, cmi5, init, lifecycle, posts, hist, budget >>
  /\ UNCHANGED trackerVars
  /\ UNCHANGED << contextTemplate, exam, localStorage, request >>

\* a producer statement is built by Cmi5.sendStatement or sendStatementSync
BuildAllowed(via) ==
  /\ sent' = sent \cup { allowedStatement(contextTemplate, via) }
  /\ UNCHANGED << url, store, page, cmi5, init, lifecycle, posts, hist, budget >>
  /\ UNCHANGED trackerVars
  /\ UNCHANGED << contextTemplate, exam, localStorage, request >>

InitStatement ==
  /\ url \in LaunchURLs
  /\ store = {}
  /\ page = "loaded"
  /\ cmi5 = Cmi5Init
  /\ init = [ pc |-> "unstarted", attempt |-> 0 ]
  /\ lifecycle = {}
  /\ posts = [ f \in FetchUrls |-> 0 ]
  /\ hist = HistInit
  /\ budget = BudgetPage
  /\ tracker = TrackerInit
  /\ calls = {}
  /\ course = CourseInit
  /\ wire = WireInit
  /\ contextTemplate \in Templates
  /\ sent = {}
  /\ exam = ExamInit /\ localStorage = LocalStorageInit
  /\ request = NoRequest

NextStatement ==
  \/ \E verb \in LifecycleVerbs : BuildLifecycle(verb)
  \/ \E via \in { "sendStatement", "sendStatementSync" } : BuildAllowed(via)

SpecStatement == InitStatement /\ [][NextStatement]_vars

\* ------------------------------------------------------ the final exam
\* scores are percentages; -1 stands for null / no entry
ExamScores == { 60, 80 }
MAX_EXAM_ATTEMPTS == 3
PassMark == 75

Max(a, b) == IF a > b THEN a ELSE b

\* variant of startExam without the attempt limit
startExamUnlimited(e) ==
  [ e EXCEPT !.examAttempts = @ + 1, !.running = TRUE ]

\* startExam (part_000 3393-3425)
startExam(e) ==
  IF e.examAttempts >= MAX_EXAM_ATTEMPTS THEN [ e EXCEPT !.refused = TRUE ]
  ELSE [ e EXCEPT !.examAttempts = @ + 1, !.running = TRUE ]

\* saveExamState (part_000 3554-3566)
saveExamState(e, ls) ==
  [ ls EXCEPT !.exam = << [ examAttempts |-> e.examAttempts,
                            examBestScore |-> e.examBestScore ] >> ]

\* saveState (course.js 502-516): quizScores is saved, finalExamScore is not
saveState(e, ls) == [ ls EXCEPT !.course = << e.quizScore >> ]

\* showExamResults (part_000 3473-3540) for an attempt that scored s
showExamResults(e, s) ==
  LET best == Max(e.examBestScore, s) IN
  [ e EXCEPT !.examBestScore = best, !.quizScore = s, !.finalExamScore = best,
             !.running = FALSE, !.taken = @ \cup { s } ]

\* getOverallScore (course.js 386-402); the final exam is the only quiz
\* recorded with recordQuizScore
getOverallScore(e) ==
  IF e.finalExamScore # -1 THEN e.finalExamScore
  ELSE IF e.quizScore # -1 THEN e.quizScore
  ELSE 0

\* hasPassedExam (course.js 160-165): the completion section is open
hasPassedExam(e) == e.examBestScore >= PassMark

\* Course.init -> loadState (course.js 521-536) and Interactions.init ->
\* loadExamState (part_000 3568-3582) on a new page; of the page before, e,
\* only the history of the attempts is kept
loadState(ls, e) ==
  [ examAttempts |-> IF ls.exam = << >> THEN 0 ELSE ls.exam[1].examAttempts,
    examBestScore |-> IF ls.exam = << >> THEN 0 ELSE ls.exam[1].examBestScore,
    running |-> FALSE,
    finalExamScore |-> -1,
    quizScore |-> IF ls.course = << >> THEN -1 ELSE ls.course[1],
    reported |-> -1,
    refused |-> FALSE,
    taken |-> e.taken ]

StartExam ==
  /\ ~exam.running
  /\ exam' = startExam(exam)
  /\ localStorage' = IF exam'.running THEN saveExamState(exam', localStorage)
                     ELSE localStorage
  /\ UNCHANGED << url, store, page, cmi5, init, lifecycle, posts, hist, budget >>
  /\ UNCHANGED << trackerVars, contextTemplate, sent, request >>

ShowExamResults(s) ==
  /\ exam.running
  /\ exam' = showExamResults(exam, s)
  /\ localStorage' = saveExamState(exam', saveState(exam', localStorage))
  /\ UNCHANGED << url, store, page, cmi5, init, lifecycle, posts, hist, budget >>
  /\ UNCHANGED << trackerVars, contextTemplate, sent, request >>

\* the learner reloads the page
ExamReload ==
  /\ exam' = loadState(localStorage, exam)
  /\ UNCHANGED localStorage
  /\ UNCHANGED << url, store, page, cmi5, init, lifecycle, posts, hist, budget >>
  /\ UNCHANGED << trackerVars, contextTemplate, sent, request >>

\* completeCourse (course.js 415-480) as far as the score goes: the score
\* handed to Cmi5.pass / Cmi5.fail, and clearState()
ExamCompleteCourse ==
  /\ ~exam.running /\ hasPassedExam(exam) /\ exam.reported = -1
  /\ exam' = [ exam EXCEPT !.reported = getOverallScore(exam) ]
  /\ localStorage' = [ localStorage EXCEPT !.course = << >> ]
  /\ UNCHANGED << url, store, page, cmi5, init, lifecycle, posts, hist, budget >>
  /\ UNCHANGED << trackerVars, contextTemplate, sent, request >>

\* Interactions.resetAllState (part_000 3848-3868)
ResetAllState ==
  /\ exam' = [ exam EXCEPT !.examAttempts = 0, !.examBestScore = 0,
                           !.running = FALSE, !.taken = {} ]
  /\ localStorage' = LocalStorageInit
  /\ UNCHANGED << url, store, page, cmi5, init, lifecycle, posts, hist, budget >>
  /\ UNCHANGED << trackerVars, contextTemplate, sent, request >>

InitExam ==
  /\ url \in QueueURLs
  /\ store = {}
  /\ page = "loaded"
  /\ cmi5 = Cmi5Init
  /\ init = [ pc |-> "unstarted", attempt |-> 0 ]
  /\ lifecycle = {}
  /\ posts = [ f \in FetchUrls |-> 0 ]
  /\ hist = HistInit
  /\ budget = BudgetPage
  /\ tracker = TrackerInit
  /\ calls = {}
  /\ course = CourseInit
  /\ wire = WireInit
  /\ ExtraInit

NextExam ==
  \/ StartExam
  \/ \E s \in ExamScores : ShowExamResults(s)
  \/ ExamReload
  \/ ExamCompleteCourse
  \/ ResetAllState

SpecExam == InitExam /\ [][NextExam]_vars

\* ------------------------------------------------- one lrsRequest call
RETRY_DELAY_MS == 1000

\* the sleep before retry number retryCount + 1 (lines 388, 410)
retryDelay(retryCount) == RETRY_DELAY_MS * (retryCount + 1)

\* the answer r to the request of the call: lrsRequest sleeps and calls
\* itself with retryCount + 1, or settles
LrsResponse(r) ==
  /\ request.result = "pending"
  /\ LET o == lrsOutcome(r, request.retryCount, request.method) IN
     request' =
       IF o = "retry"
       THEN [ request EXCEPT !.retryCount = @ + 1,
                             !.answers = Append(@, r),
                             !.slept = Append(@, retryDelay(request.retryCount)) ]
       ELSE [ request EXCEPT !.answers = Append(@, r), !.result = o ]
  /\ UNCHANGED << url, store, page, cmi5, init, lifecycle, posts, hist, budget >>
  /\ UNCHANGED << trackerVars, contextTemplate, sent, exam, localStorage >>

InitBackoff ==
  /\ url \in QueueURLs
  /\ store = {}
  /\ page = "loaded"
  /\ cmi5 = Cmi5Init
  /\ init = [ pc |-> "unstarted", attempt |-> 0 ]
  /\ lifecycle = {}
  /\ posts = [ f \in FetchUrls |-> 0 ]
  /\ hist = HistInit
  /\ budget = BudgetPage
  /\ tracker = TrackerInit
  /\ calls = {}
  /\ course = CourseInit
  /\ wire = WireInit
  /\ contextTemplate = NoTemplate /\ sent = {}
  /\ exam = ExamInit /\ localStorage = LocalStorageInit
  /\ request \in { [ NoRequest EXCEPT !.method = m ] : m \in { "GET", "PUT" } }

NextBackoff == \E r \in Responses : LrsResponse(r)

SpecBackoff == InitBackoff /\ [][NextBackoff]_vars

\* --------------------------------------- delivery with a rejected statement
\* a complete launch in which the record store rejects one statement with
\* 400 Bad Request on every attempt and answers all other requests
Poison == 1

BudgetDrain == [ loads |-> 0, calls |-> 0, faults |-> MaxFaults, stmts |-> MaxStmts ]

\* the record store rejects the PUT of the statement Poison (1541-1564)
Reject(x) ==
  /\ page = "loaded" /\ Quiet
  /\ x \in calls /\ x.pc = "send" /\ x.batch[x.i] = Poison
  /\ Apply(Response(Cur, cmi5, x, "e400"))
  /\ UNCHANGED << cmi5Vars, page >>
  /\ UNCHANGED extraVars

\* the record store answers the PUT of another statement
Answer(x, r) == x.pc = "send" /\ x.batch[x.i] # Poison /\ BatchResponse(x, r)

InitDrain ==
  /\ url \in DeliveryURLs
  /\ store = {}
  /\ page = "loaded"
  /\ cmi5 = Cmi5Init
  /\ init = [ pc |-> "unstarted", attempt |-> 0 ]
  /\ lifecycle = {}
  /\ posts = [ f \in FetchUrls |-> 0 ]
  /\ hist = HistInit
  /\ budget = BudgetDrain
  /\ tracker = TrackerInit
  /\ calls = {}
  /\ course = CourseInit
  /\ wire = WireInit
  /\ ExtraInit

NextDrain ==
  \/ Initialize
  \/ \E r \in ExchangeResponses : ExchangeResponse(r)
  \/ \E r \in Responses : PrefsResponse(r)
  \/ \E r \in Responses, doc \in LaunchDataDocs : LaunchDataResponse(r, doc)
  \/ \E r \in Responses : InitializedResponse(r)
  \/ XAPITrackerInit
  \/ \E immediate \in BOOLEAN : Track(immediate)
  \/ TimerTick
  \/ \E x \in calls, r \in Responses : Answer(x, r)
  \/ \E x \in calls : Reject(x)
  \/ \E x \in calls : BatchResume(x)

SpecDrain == InitDrain /\ [][NextDrain]_vars

\* the batch timer keeps firing (setInterval, 198), every request is
\* answered and every continuation runs
FairDrain ==
  /\ WF_vars(TimerTick)
  /\ WF_vars(\E x \in calls, r \in Responses : Answer(x, r))
  /\ WF_vars(\E x \in calls : Reject(x))
  /\ WF_vars(\E x \in calls : BatchResume(x))

SpecDrainFair == SpecDrain /\ FairDrain

\* ------------------------------------------------------------- claims

\* C1 Exchange-once: over the loads and reloads of one launch URL, at most
\* one POST is issued to its one-time fetch URL.
ExchangeOnce ==
  ~hist.navigated => \A f \in FetchUrls : posts[f] <= 1

\* C2 Restore leads to Active(Connected): when initialize() has run on a page
\* loaded after a successful exchange for the same registration and session,
\* the engine is connected and initialized and the page issued no exchange.
RestoreLeadsToConnected ==
  (init.pc = "done" /\ ~hist.navigated /\ url.fetch \in hist.prior)
    => (isConnected(cmi5) /\ cmi5.initialized /\ ~hist.exchanged)

\* the stored record d belongs to another launch than u
OtherLaunch(d, u) ==
  \/ d.registration # u.registration
  \/ (u.fetch # Null /\ SessionOf[u.fetch] # Null /\ d.sessionId # SessionOf[u.fetch])

\* initialize() has just run its synchronous part on a stored record of
\* another launch
ResetStep ==
  /\ init.pc = "unstarted" /\ init'.pc # "unstarted"
  /\ store # {} /\ \A d \in store : OtherLaunch(d, url)

\* nothing of the stored record is in the engine and the record is gone
StoredStateDiscarded ==
  /\ store' = {}
  /\ cmi5'.authToken = Null
  /\ ~cmi5'.completionSent /\ ~cmi5'.successSent
  /\ cmi5'.registration = url.registration
  /\ cmi5'.sessionId = freshSessionId([ fetchUrl |-> url.fetch ])
  /\ cmi5'.masteryScore = DefaultMastery

\* C3 Reset detection (as stated): a stored record of another registration or
\* session is not loaded, is removed, and a fresh exchange request is issued.
ResetDetection ==
  [][ ResetStep => (StoredStateDiscarded /\ hist'.exchanged) ]_vars

\* the launch URL carries endpoint, fetch, actor, registration and activityId
FullLaunch(u) == u.rest /\ u.fetch # Null /\ u.registration # Null

\* C3 Reset detection (amended): a stored record of another registration or
\* session is not loaded and is removed; a fresh exchange request is issued
\* when the launch carries all five launch parameters, and otherwise the
\* engine ends initialized and standalone without any request.
ResetDetectionFullLaunch ==
  [][ ResetStep =>
        /\ StoredStateDiscarded
        /\ FullLaunch(url) => hist'.exchanged /\ init'.pc = "fetchAuth"
        /\ ~FullLaunch(url) => (~hist'.exchanged /\ init'.pc = "done"
                                  /\ cmi5'.initialized /\ ~isConnected(cmi5')) ]_vars

\* a page has discarded the record of another launch and awaits its exchange
ResetDetectionWitness ==
  hist.reset /\ hist.navigated /\ init.pc = "fetchAuth" /\ store = {}

\* C9 Lifecycle verbs are send-once: at most one completed statement and at
\* most one passed-or-failed statement is in flight or acknowledged.
InFlight(verbs) == Cardinality({ q \in lifecycle : q.verb \in verbs })

Acked(verbs) == IF hist.acked \cap verbs # {} THEN 1 ELSE 0

LifecycleSendOnce ==
  /\ InFlight({ "completed" }) + Acked({ "completed" }) <= 1
  /\ InFlight({ "passed", "failed" }) + Acked({ "passed", "failed" }) <= 1

\* delivery loops that have taken their batch and not finished
ActiveLoops == { x \in calls : x.pc = "send" }

\* C4: single flush in flight - in every reachable state at most one
\* processBatch delivery loop is between taking its batch and finishing
SingleFlushInFlight == Cardinality(ActiveLoops) <= 1

\* C5: delivery order - when the first PUT for a statement b is issued, no
\* statement submitted before b is still held for delivery (queued, in
\* flight or waiting in a batch)
DeliveryOrder ==
  [][ \A b \in wire'.put \ wire.put : \A a \in 1..(b - 1) :
        a \notin Pending(tracker'.statementQueue, calls') ]_vars

\* C6: at-least-once - no statement leaves a batch without a transport call
\* while Cmi5.isConnected() holds and the session is neither ended nor
\* terminated
NoSilentLoss == wire.silent = {}

\* C7: halt is absorbing for the queue - once processBatch has seen a
\* session-ended error, sessionEnded stays true and the queue stays empty,
\* whatever is submitted or flushed afterwards
HaltAbsorbing ==
  wire.halted => tracker.sessionEnded /\ tracker.statementQueue = << >>

\* a statement was submitted after the halt and dropped
HaltAbsorbingWitness ==
  wire.halted /\ wire.last.kind = "dropped" /\ tracker.statementQueue = << >>

\* C8: no transport after halt - once processBatch has seen a session-ended
\* error no request is issued to the LRS for the rest of the page life
NoTransportAfterHalt == ~wire.afterHalt

\* the PUT of delivery loop x is answered by an error that is thrown to
\* processBatch and that line 1549 does not take for an ended session
FailStep(x) ==
  /\ page' = "loaded"
  /\ x.pc = "send" /\ x \notin calls'
  /\ wire'.last.kind = "throw" /\ wire'.last.id = x.id
  /\ ~sessionError(wire'.last.resp)

\* statements i..n of the batch go to the front of the queue, the loop is
\* over, nothing else is sent and the session is not ended
Requeued(x) ==
  /\ tracker'.statementQueue = SubSeq(x.batch, x.i, Len(x.batch)) \o tracker.statementQueue
  /\ ~tracker'.sessionEnded
  /\ wire'.put = wire.put
  /\ \A y \in calls' : y.id # x.id

\* C10 as stated: a failure that does not indicate session invalidation
\* requeues statements i..n at the front, stops the flush and does not halt
TransientRequeue ==
  [][ \A x \in calls : FailStep(x) => Requeued(x) ]_vars

\* C10: transient failure requeue holds when the tracker has not ended the
\* session by the time the failure is handled; when it has, the statements
\* are discarded and the queue stays as it is
TransientRequeueUnlessEnded ==
  [][ \A x \in calls : FailStep(x) =>
        IF tracker.sessionEnded
        THEN /\ tracker'.statementQueue = tracker.statementQueue
             /\ tracker'.sessionEnded
             /\ wire'.put = wire.put
             /\ \A y \in calls' : y.id # x.id
        ELSE Requeued(x) ]_vars

\* a failed statement and the one behind it are back in the queue
TransientRequeueWitness ==
  /\ wire.last.kind = "throw" /\ ~sessionError(wire.last.resp)
  /\ ~tracker.sessionEnded
  /\ Len(tracker.statementQueue) >= 2
  /\ tracker.statementQueue[1] \in wire.put
  /\ tracker.statementQueue[2] \notin wire.put

\* responses by which the LRS says that the session no longer exists
SessionInvalid == { "e401", "e403snf" }

\* the PUT of delivery loop x is answered by a session-invalidated error
HaltStep(x) ==
  /\ page' = "loaded"
  /\ x.pc = "send" /\ x \notin calls'
  /\ wire'.last.kind = "throw" /\ wire'.last.id = x.id
  /\ wire'.last.resp \in SessionInvalid

\* C11: halt transition - when statement i of a batch fails with a
\* session-invalidated error, statements 1..i-1 were acknowledged, statements
\* i..n are no longer held for delivery and no PUT is issued for them, the
\* queue is empty, sessionEnded is true and the delivery loop is over
HaltTransition ==
  [][ \A x \in calls : HaltStep(x) =>
        /\ \A j \in 1..(x.i - 1) : x.batch[j] \in wire'.acked
        /\ \A j \in x.i..Len(x.batch) :
              x.batch[j] \notin Pending(tracker'.statementQueue, calls') \cup wire'.acked
        /\ wire'.put = wire.put
        /\ tracker'.statementQueue = << >>
        /\ tracker'.sessionEnded /\ wire'.halted
        /\ \A y \in calls' : y.id # x.id ]_vars

\* statement 1 was delivered, statement 2 was answered by a
\* session-invalidated error, the session is halted
HaltTransitionWitness ==
  /\ wire.last.kind = "throw" /\ wire.last.resp \in SessionInvalid
  /\ wire.halted /\ tracker.sessionEnded
  /\ wire.acked = { 1 } /\ wire.put = { 1, 2 }

\* lifecycle PUTs of completeCourse that are unanswered
CourseRequests == { q \in lifecycle : q.owner = "course" }

FlushBeforeCompletion ==
  \A q \in CourseRequests : q.verb = "completed" => course.held \subseteq wire.acked

\* C14: after termination the session store is empty - in every state in
\* which the terminated statement of this page has been acknowledged,
\* sessionStorage holds no session record
StoreEmptyAfterTermination == cmi5.terminated => store = {}

\* the page is torn down
TeardownStep == page = "loaded" /\ page' = "closed"

StandaloneLaunch == ~hasAllParams(parseLaunchParameters(Cmi5Init, url))

\* every statement submitted so far, in submission order
Submitted == [ j \in 1..(wire.next - 1) |-> j ]

ExchangeFailed ==
  init.pc = "done" /\ hist.exchanged /\ cmi5.fetchUrl \notin hist.issued

\* C17: exchange failure degrades to standalone - after a failed exchange
\* initialize() has issued that one POST and nothing else, the wrapper is
\* initialized and not connected, and no request is made for the rest of
\* the page life
ExchangeFailureStandalone ==
  ExchangeFailed =>
    /\ cmi5.initialized /\ ~isConnected(cmi5)
    /\ posts[cmi5.fetchUrl] = 1
    /\ store = {} /\ hist.acked = {}
    /\ lifecycle = {} /\ calls = {}
    /\ wire.put = {} /\ wire.syncPuts = 0

\* after a failed exchange the tracker has flushed and completeCourse has run
ExchangeFailureStandaloneWitness ==
  /\ ExchangeFailed /\ page = "loaded"
  /\ tracker.batchPromise = Settled /\ Len(tracker.statementQueue) >= 1
  /\ course.pc = "done"

\* C18: on a fresh launch initialize() goes through the token exchange,
\* the learner-preferences retrieval, the launch-data retrieval and the
\* initialized statement in that order, one step starting only when the
\* previous one has settled; whatever the answers to the two retrievals
\* (404, 4xx, 5xx after retries, network error) the initialized statement
\* is sent next; and a launch-data retrieval that failed leaves the
\* mastery score at its default of 0.75
LaunchOrder ==
  { << "unstarted", "fetchAuth" >>, << "unstarted", "done" >>,
    << "fetchAuth", "prefs" >>, << "fetchAuth", "done" >>,
    << "prefs", "launchData" >>, << "launchData", "sendInit" >>,
    << "sendInit", "done" >> }

FreshLaunchSequence ==
  [][ /\ init'.pc # init.pc => << init.pc, init'.pc >> \in LaunchOrder
      /\ init.pc = "launchData" /\ budget'.faults < budget.faults
           => cmi5'.masteryScore = DefaultMastery
      /\ init.pc \in { "prefs", "launchData" }
           => /\ cmi5'.initialized = cmi5.initialized
              /\ cmi5'.authToken = cmi5.authToken ]_vars

\* both retrievals failed, one of them after all its retries, and the
\* initialized statement is on its way with the default mastery score
FreshLaunchSequenceWitness ==
  /\ init.pc = "sendInit"
  /\ budget.faults = 0
  /\ cmi5.masteryScore = DefaultMastery
  /\ ~cmi5.initialized

\* C19: a submission is rejected when the session is not active -
\* Cmi5.sendStatement returns null without a request to the LRS whenever
\* the wrapper is uninitialized, not connected or terminated; a statement
\* submitted to the tracker after halt is not queued; and an id is
\* returned only for a statement that was put to the LRS, never for one
\* that was turned away
SubmissionRejected ==
  [][ /\ ( ~cmi5.initialized \/ cmi5.terminated \/
           cmi5.endpoint = Null \/ cmi5.authToken = Null )
           => wire'.put = wire.put
      /\ ( tracker.sessionEnded )
           => Len(tracker'.statementQueue) <= Len(tracker.statementQueue)
      /\ wire'.acked \subseteq wire'.put
      /\ (wire'.silent \ wire.silent) \cap wire'.acked = {} ]_vars

\* a statement handed over during initialize() came back null and was
\* never put, a later one was delivered
SubmissionRejectedWitness ==
  /\ wire.silent # {}
  /\ wire.silent \cap wire.put = {}
  /\ wire.acked # {}

\* C20: when the completion sequence reaches its pass/fail step it sends
\* exactly one statement, passed if the reported score is greater than or
\* equal to the mastery score (the value of the launch data, 0.75 without
\* one) and failed otherwise
PassFailStep == course.pc = "completed" /\ course'.pc = "success"

PassFailDecision ==
  [][ PassFailStep =>
        \E q \in lifecycle' :
          /\ lifecycle' = lifecycle \cup { q } /\ q \notin lifecycle
          /\ q.owner = "course"
          /\ q.verb = IF course.score >= cmi5.masteryScore
                      THEN "passed" ELSE "failed" ]_vars

\* C21: every statement built on the lifecycle path carries the cmi5
\* category exactly once in its context activities, also when the context
\* template has it already; a producer statement built by
\* Cmi5.sendStatement or Cmi5.sendStatementSync carries no category
Count(list, c) == Cardinality({ i \in 1..Len(list) : list[i] = c })

ReservedCategory ==
  \A m \in sent :
    IF m.via = "lifecycle" THEN Count(m.category, "cmi5") = 1
    ELSE m.category = << >>

\* the template brings the cmi5 category itself; a lifecycle statement and
\* a producer statement have been built from it
ReservedCategoryWitness ==
  /\ contextTemplate.present /\ contextTemplate.category # << >>
  /\ Has(contextTemplate.category[1], "cmi5")
  /\ \E m \in sent : m.via = "lifecycle" /\ m.verb = "passed"
  /\ \E m \in sent : m.via = "sendStatementSync"

\* C22: bounded queue while disconnected - in every reachable state where
\* Cmi5 is not connected the tracker's queue holds at most 100 statements
QueueBounded ==
  ~isConnected(cmi5) => Len(tracker.statementQueue) <= MAX_QUEUE

\* a flush of the tracker: the batch timer, or a submission that flushes
FlushStep == TimerTick \/ Track(TRUE)

\* the queue before the cap is applied
Uncapped ==
  IF wire'.next > wire.next
  THEN Append(tracker.statementQueue, wire.next) ELSE tracker.statementQueue

\* C22 (amended): submissions are queued without a limit; each flush made
\* while Cmi5 is not connected cuts the queue down to its newest 100
\* statements, in their order, and discards nothing when it holds 100 or
\* fewer
QueueCappedOnFlush ==
  [][ FlushStep /\ ~isConnected(cmi5) =>
        LET q == tracker'.statementQueue
            n == Min(Len(Uncapped), MAX_QUEUE) IN
        /\ Len(q) = n
        /\ q = SubSeq(Uncapped, Len(Uncapped) - n + 1, Len(Uncapped)) ]_vars

\* the oldest statements have been discarded, the newest 100 are queued
QueueCappedOnFlushWitness ==
  /\ ~isConnected(cmi5)
  /\ Len(tracker.statementQueue) = MAX_QUEUE
  /\ tracker.statementQueue[1] > 1
  /\ tracker.statementQueue[MAX_QUEUE] = wire.next - 1

\* completeCourse is not stuck: its continuation is ready, or the flush
\* promise or the lifecycle request it waits for is pending
CourseCanGoOn ==
  \/ course.ready
  \/ /\ course.pc = "flush"
     /\ course.on = Settled \/ \E x \in calls : x.id = course.on
  \/ \E q \in lifecycle : q.owner = "course"

\* C23: reporting never blocks progression - whatever the LRS answers
\* (success, 4xx, 5xx, network error), initialize() returns with the
\* wrapper initialized, completeCourse() is never left waiting for nothing
\* and, when it ends, it has cleared the saved course state
NeverBlocks ==
  /\ [] ( page = "loaded" /\ course.pc \notin { "idle", "done" } => CourseCanGoOn )
  /\ [][ /\ ( init.pc # "done" /\ init'.pc = "done" ) => cmi5'.initialized
         /\ ( course.pc # "done" /\ course'.pc = "done" /\ page' = "loaded" )
              => course'.cleared ]_vars

\* the completed statement was acknowledged, a later lifecycle call failed
\* and completeCourse ended in its catch with the saved state cleared
NeverBlocksWitness ==
  /\ page = "loaded" /\ course.pc = "done" /\ course.cleared
  /\ "completed" \in hist.acked /\ ~cmi5.terminated
  /\ budget.faults = 0

\* the best score over the attempts taken
RECURSIVE SetMax(_)
SetMax(S) ==
  IF S = {} THEN 0
  ELSE LET x == CHOOSE y \in S : TRUE IN Max(x, SetMax(S \ { x }))

\* C24: the score completeCourse hands to Cmi5.pass / Cmi5.fail is the
\* learner's best final-exam score over all attempts taken, for any
\* sequence of attempts, also after a reload between an attempt and the
\* completion
ReportedBestScore ==
  [][ exam.reported = -1 /\ exam'.reported # -1
        => exam'.reported = SetMax(exam.taken) ]_vars

\* C25: exam attempts are limited to three - examAttempts never exceeds 3,
\* a startExam call made when three attempts have been used changes
\* neither the exam state nor what is saved, and examBestScore never
\* decreases over attempts and reloads, resetAllState apart
ExamAttemptsLimited ==
  /\ [] ( exam.examAttempts <= MAX_EXAM_ATTEMPTS )
  /\ [][ /\ ( exam.examAttempts >= MAX_EXAM_ATTEMPTS /\ StartExam )
              => /\ exam'.examAttempts = exam.examAttempts
                 /\ exam'.examBestScore = exam.examBestScore
                 /\ ~exam'.running
                 /\ localStorage' = localStorage
         /\ ~ResetAllState => exam'.examBestScore >= exam.examBestScore ]_vars

\* all three attempts are used, the best score survived a weaker attempt
\* and a reload, and a fourth start was turned down
ExamAttemptsLimitedWitness ==
  /\ exam.examAttempts = MAX_EXAM_ATTEMPTS /\ exam.refused
  /\ exam.examBestScore = 80 /\ exam.quizScore = 60
  /\ exam.finalExamScore = -1

\* C26: a flush requested during an in-flight flush waits for it - when
\* XAPITracker.flush() is called while a delivery loop is active, the
\* promise it returns is not resolved at the call but pending until that
\* loop has finished, whatever the queue holds at the call
FlushAwaitsInFlight ==
  [][ course.pc = "idle" /\ course'.pc = "flush" /\ ActiveLoops # {}
        => course'.on # Settled ]_vars

\* C27: statements are immutable after submission - every transport
\* attempt made for one submitted statement carries the id and the timestamp
\* fixed at submission.  Each call of Cmi5.sendStatement builds a statement
\* of its own (generateUUID(), new Date(), 1110-1127) and only the retries
\* inside lrsRequest repeat a body, so the claim needs that the delivery
\* loop never hands a statement to Cmi5.sendStatement a second time
StatementBuiltOnce ==
  [][ \A x \in calls' \ calls :
        x.pc = "send" /\ x.attempt = 0 => x.batch[x.i] \notin wire.put ]_vars

\* C28: halt only on session invalidation - processBatch takes the halt
\* transition only for a delivery failure that tells that the session no
\* longer exists on the server (a 401, or a 403 "session not found");
\* every other delivery failure is requeued
HaltOnlyOnInvalidation ==
  [][ \A x \in calls :
        /\ x.pc = "send" /\ ~tracker.sessionEnded
        /\ wire'.last.kind = "throw" /\ wire'.last.id = x.id
        /\ x \notin calls'
        => IF wire'.last.resp \in SessionInvalid
           THEN tracker'.sessionEnded
           ELSE /\ ~tracker'.sessionEnded
                /\ \E j \in 1..Len(tracker'.statementQueue) :
                     tracker'.statementQueue[j] = x.batch[x.i] ]_vars

\* the session record holds the credential in use
CredentialStored ==
  \E d \in store : /\ d.authToken = cmi5.authToken
                   /\ d.registration = cmi5.registration
                   /\ d.sessionId = cmi5.sessionId

\* a record-store request of the wrapper is awaiting its answer
RequestPending ==
  init.pc \in { "prefs", "launchData", "sendInit" } \/ lifecycle # {}

\* C29 as stated: in every state after fetchAuthToken has succeeded,
\* sessionStorage holds a record with the token, the registration and the
\* session id
CredentialAlwaysStored == cmi5.authToken # Null => CredentialStored

\* C29: the credential is persisted before it is used - from the step in
\* which fetchAuthToken succeeds until the session is terminated,
\* sessionStorage holds a record with the token, the registration and the
\* session id, and a record-store request is pending only when that token
\* is set, hence after the record was written
CredentialPersisted ==
  /\ cmi5.authToken # Null /\ ~cmi5.terminated => CredentialStored
  /\ RequestPending => cmi5.authToken # Null

CredentialPersistedWitness ==
  /\ init.pc = "prefs" /\ hist.exchanged
  /\ cmi5.authToken # Null /\ CredentialStored

\* 5xx answers and network errors
ServerOrNetwork == { "e500", "e500t401", "net" }

\* C30: bounded transport retry - one lrsRequest call issues at most
\* 1 + MAX_RETRIES requests, issues a further one only after a 5xx answer
\* or a network error and never after a 4xx answer, and rejects to its
\* caller when an attempt fails and no further one is made
BoundedRetry ==
  /\ [](init.attempt <= MAX_RETRIES /\ \A x \in calls : x.attempt <= MAX_RETRIES)
  /\ [][ \A x \in calls, r \in Responses :
           BatchResponse(x, r) =>
             LET again == [ x EXCEPT !.attempt = @ + 1 ] IN
             /\ again \in calls' <=> (r \in ServerOrNetwork /\ x.attempt < MAX_RETRIES)
             /\ (r # "ok" /\ again \notin calls')
                  => wire'.last = Event("throw", x.id, r) /\ x.batch[x.i] \notin wire'.acked ]_vars
  /\ [][ \A r \in Responses :
           InitializedResponse(r) =>
             LET again == init' = [ init EXCEPT !.attempt = @ + 1 ] IN
             /\ again <=> (r \in ServerOrNetwork /\ init.attempt < MAX_RETRIES)
             /\ (r # "ok" /\ ~again) => init'.pc = "done" /\ hist'.acked = hist.acked ]_vars

BoundedRetryWitness ==
  /\ wire.last.kind = "throw" /\ wire.last.resp = "net"
  /\ wire.put # {} /\ wire.acked = {}

\* the session of this page was restored from the Session Store
Restored == init.pc = "done" /\ ~hist.exchanged /\ isConnected(cmi5)

\* C31: send-once flags survive a reload - when completed (passed, failed)
\* was acknowledged before a reload and the session, which no terminated
\* statement has ended, is restored from the Session Store, a later
\* complete() (pass(), fail()) sends nothing
FlagsSurviveReload ==
  [][ \A verb \in { "completed", "passed", "failed" } :
        /\ ApiCall(verb) /\ Restored
        /\ verb \in hist.acked /\ "terminated" \notin hist.acked
        => lifecycle' = lifecycle /\ wire' = wire ]_vars

FlagsSurviveReloadWitness ==
  /\ Restored /\ "completed" \in hist.acked
  /\ budget.calls = 0 /\ budget.faults = MaxFaults /\ lifecycle = {}
  /\ cmi5.completionSent /\ ~cmi5.successSent /\ ~cmi5.terminated

\* C32: the synchronous terminated send is not retried - one page teardown
\* (beforeunload followed by pagehide) issues at most one synchronous
\* terminated request, also when that request fails
SyncTerminatedOnce == wire.syncPuts <= 1

\* statements the delivery loop x still has to send, the one in flight
\* included
Carried(x) == { x.batch[j] : j \in x.i..Len(x.batch) }

\* C33: immediate flush of high-value events - a quiz answer or a game
\* result submitted while connected requests a flush at once: with no flush
\* active a delivery loop carrying the statement has a PUT in flight when
\* the handler returns, otherwise a processBatch call waits for the active
\* flush and starts its loop with the whole queue as soon as that flush
\* has ended, without a timer tick
ImmediateFlush ==
  /\ [][ Track(TRUE) /\ isConnected(cmi5) /\ ~cmi5.terminated /\ ~tracker.sessionEnded
          => IF ActiveLoops = {}
             THEN \E x \in calls' : x.pc = "send" /\ wire.next \in Carried(x)
             ELSE \E x \in calls' \ calls :
                    /\ x.pc = "wait" /\ x.on \in { y.id : y \in calls }
                    /\ wire.next = tracker'.statementQueue[Len(tracker'.statementQueue)] ]_vars
  /\ [][ \A x \in calls :
           /\ BatchResume(x)
           /\ isConnected(cmi5) /\ ~cmi5.terminated /\ ~tracker.sessionEnded
           /\ tracker.statementQueue # << >>
           => \E y \in calls' : /\ y.pc = "send" /\ y.id = x.id
                                 /\ y.batch = tracker.statementQueue ]_vars

RECURSIVE Pow2(_)
Pow2(n) == IF n = 0 THEN 1 ELSE 2 * Pow2(n - 1)

\* C34: exponential backoff - inside one transport call each delay before
\* a retry is twice the previous one, starting from RETRY_DELAY_MS
ExponentialBackoff ==
  \A j \in 1..Len(request.slept) : request.slept[j] = RETRY_DELAY_MS * Pow2(j - 1)

\* C35: initialized comes first - no statement (producer statement,
\* completed, passed, failed or terminated) is sent to the record store
\* unless the initialized statement of the session was acknowledged before
InitializedFirst ==
  (lifecycle # {} \/ wire.put # {} \/ wire.syncPuts > 0)
    => "initialized" \in hist.acked

\* asynchronous terminated statements awaiting their answer
TerminatedPending == { q \in lifecycle : q.verb = "terminated" }

\* C36: at most one terminated statement - never two terminated statements
\* are on their way to the record store, and an unload that happens while
\* an asynchronous terminate() is awaiting its answer sends no synchronous
\* terminated statement
AtMostOneTerminated ==
  /\ [](Cardinality(TerminatedPending) <= 1)
  /\ [][ TerminatedPending # {} /\ page' = "closed" => wire'.syncPuts = 0 ]_vars

\* C37: terminated is the last statement - once a terminated statement has
\* been acknowledged no request for a statement is issued in the session:
\* no PUT of a delivery loop, no lifecycle PUT, no synchronous PUT and no
\* transport retry of a request made earlier
TerminatedIsLast ==
  [][ cmi5.terminated =>
        /\ \A x \in calls' \ calls : x.pc # "send"
        /\ lifecycle' \subseteq lifecycle
        /\ page' = "closed" /\ page = "loaded" => wire'.syncPuts = 0 ]_vars

\* the page delivers: connected, initialized, neither halted nor terminated
Delivering ==
  /\ page = "loaded" /\ cmi5.initialized /\ isConnected(cmi5)
  /\ ~cmi5.terminated /\ ~tracker.sessionEnded

Queued(n) == \E j \in 1..Len(tracker.statementQueue) : tracker.statementQueue[j] = n

\* C38: the queue eventually drains - while the session stays connected
\* and is neither halted nor terminated, under fair timer ticks every
\* queued statement is eventually sent to the transport, also when a
\* statement ahead of it is rejected on every attempt
QueueDrains ==
  \A n \in 1..MaxStmts :
    (Queued(n) /\ Delivering) ~> (n \in wire.put \/ ~Delivering)

\* the send-once flag of a lifecycle verb
Flag(c, verb) ==
  IF verb = "completed" THEN c.completionSent
  ELSE IF verb = "terminated" THEN c.terminated
  ELSE c.successSent

\* C39: send-once flags reflect acknowledged sends only - completionSent,
\* successSent and terminated are true only if the corresponding statement
\* was acknowledged; a send that fails leaves the flags and the stored
\* record as they were, and a later call sends the statement again
FlagsReflectAcks ==
  /\ [](/\ cmi5.completionSent => "completed" \in hist.acked
        /\ cmi5.successSent => hist.acked \cap { "passed", "failed" } # {}
        /\ cmi5.terminated => "terminated" \in hist.acked)
  /\ [][ \A q \in lifecycle, r \in Failures :
           LifecycleResponse(q, r) => cmi5' = cmi5 /\ store' = store ]_vars
  /\ [][ \A verb \in ApiVerbs :
           /\ ApiCall(verb)
           /\ cmi5.initialized /\ isConnected(cmi5) /\ ~cmi5.terminated
           /\ ~Flag(cmi5, verb)
           => \E q \in lifecycle' \ lifecycle : q.verb = verb /\ q.attempt = 0 ]_vars

FlagsReflectAcksWitness ==
  /\ cmi5.initialized /\ "initialized" \in hist.acked
  /\ budget.calls = MaxApiCalls - 2 /\ budget.faults = MaxFaults - 1
  /\ ~cmi5.completionSent /\ ~cmi5.successSent /\ ~cmi5.terminated
  /\ \E q \in lifecycle : lifecycle = { q } /\ q.verb = "completed" /\ q.attempt = 0

\* the processBatch invocation id has not returned
Running(id) == \E x \in calls : x.id = id

\* C40: a flush always completes and releases its guard - when every
\* transport call settles, every processBatch call returns (after a
\* success, a transient failure, a halt, or without connection), and
\* batchInProgress is false whenever no delivery loop is active
FlushCompletes ==
  /\ [](ActiveLoops = {} => ~tracker.batchInProgress)
  /\ \A id \in 1..MaxCalls : Running(id) ~> ~Running(id)

FlushCompletesWitness ==
  /\ wire.last.kind = "throw" /\ calls = {}
  /\ ~tracker.batchInProgress /\ tracker.statementQueue # << >>

====
